---- MODULE Spec2Model ----
(***************************************************************************)
(* State-machine model of src/pdf_renamer.py: the PDFRenamer pipeline      *)
(* (scan, cover extraction, classification, filename synthesis, collision  *)
(* resolution, move or dry-run log) and the command-line entry point.      *)
(*                                                                         *)
(* Python strings are sequences of one-character strings.  A path is a     *)
(* record [dir, name]; the two directories are "in" (self.directory) and   *)
(* "out" (a separate output directory).  The content of a file is the path *)
(* it had before the run, so that a moved or overwritten file is visible.  *)
(***************************************************************************)
EXTENDS Integers, Sequences, FiniteSets, TLC

\* ------------------------------------------------------------------ bounds
\* Largest number of files placed in the input directory.
NumFiles == 3

\* Largest number of already-present files base, base_1, ... in the output
\* directory.
MaxExisting == 3

\* Longest string handed to sanitize_filename on its own.
MaxStrLen == 3

\* ------------------------------------------------------- string primitives
DigitChars == <<"0", "1", "2", "3", "4", "5", "6", "7", "8", "9">>

RECURSIVE IntToStr(_)
\* str(n) of a non-negative integer, as used by the f-string "_{counter}".
IntToStr(n) ==
    IF n < 10 THEN <<DigitChars[n + 1]>>
    ELSE IntToStr(n \div 10) \o <<DigitChars[(n % 10) + 1]>>

\* Positions of character c in s.
Positions(s, c) == {i \in 1..Len(s) : s[i] = c}

Max(S) == CHOOSE x \in S : \A y \in S : y <= x

\* sub in s   (Python substring test)
IsSubstr(sub, s) ==
    \E i \in 1..(Len(s) - Len(sub) + 1) : SubSeq(s, i, i + Len(sub) - 1) = sub

\* mutant: s.split(sep, 1)[0], cutting at the first separator
SplitFirst(s, sep) ==
    IF Positions(s, sep) = {} THEN s
    ELSE SubSeq(s, 1, (CHOOSE i \in Positions(s, sep) :
                          \A j \in Positions(s, sep) : i <= j) - 1)

\* s.rsplit(sep, 1)[0] for a one-character separator
RSplitFirst(s, sep) ==
    IF Positions(s, sep) = {} THEN s
    ELSE SubSeq(s, 1, Max(Positions(s, sep)) - 1)

\* pathlib: the last dot starts the suffix unless it is the first or the
\* last character of the name.
SuffixPos(name) ==
    IF Positions(name, ".") = {} THEN 0
    ELSE LET p == Max(Positions(name, "."))
         IN IF 1 < p /\ p < Len(name) THEN p ELSE 0

PathSuffix(name) ==
    IF SuffixPos(name) = 0 THEN <<>>
    ELSE SubSeq(name, SuffixPos(name), Len(name))

PathStem(name) ==
    IF SuffixPos(name) = 0 THEN name
    ELSE SubSeq(name, 1, SuffixPos(name) - 1)

\* ---------------------------------------------------- filename synthesizer
\* mutant: the path separators are left in
InvalidCharsNoSeparators == {"<", ">", ":", "\"", "|", "?", "*"}

InvalidChars == {"<", ">", ":", "\"", "/", "\\", "|", "?", "*"}

Whitespace == {" ", "\t", "\n"}

RemoveInvalid(s) == SelectSeq(s, LAMBDA c : c \notin InvalidChars)

RECURSIVE LStrip(_)
LStrip(s) == IF s # <<>> /\ Head(s) \in Whitespace THEN LStrip(Tail(s)) ELSE s

RECURSIVE RStrip(_)
RStrip(s) ==
    IF s # <<>> /\ s[Len(s)] \in Whitespace
    THEN RStrip(SubSeq(s, 1, Len(s) - 1)) ELSE s

\* mutant: strip first, then remove the characters
sanitize_strip_first(name) == RemoveInvalid(RStrip(LStrip(name)))

sanitize_filename(name) == RStrip(LStrip(RemoveInvalid(name)))

Keys == {"Application", "MarketScope", "FileName", "Source", "Date"}

\* mutant: one default for every field
DefaultAlwaysUnknown(k) == <<"U", "n", "k", "n", "o", "w", "n">>

Default(k) ==
    CASE k = "Application" -> <<"U", "n", "k", "n", "o", "w", "n">>
      [] k = "MarketScope" -> <<"W", "W">>
      [] k = "FileName"    -> <<"U", "n", "t", "i", "t", "l", "e", "d">>
      [] k = "Source"      -> <<"U", "n", "k", "n", "o", "w", "n">>
      [] k = "Date"        -> <<"0", "0", "0", "0", "0", "0">>

\* A JSON string value and a JSON value of any other type.
Str(s) == [isStr |-> TRUE, v |-> s]
NonStr == [isStr |-> FALSE, v |-> <<>>]

\* What analyze_cover can return: None, a dict, or another parsed value
\* (list, number, string, bool) that is truthy or falsy.
NoneValue == [kind |-> "none", fields |-> [k \in {} |-> NonStr], truthy |-> FALSE]
Dict(f) == [kind |-> "dict", fields |-> f, truthy |-> DOMAIN f # {}]
Other(t) == [kind |-> "other", fields |-> [k \in {} |-> NonStr], truthy |-> t]

\* metadata.get(k, default)
Get(metadata, k) ==
    IF k \in DOMAIN metadata.fields
    THEN metadata.fields[k] ELSE Str(Default(k))

\* generate_new_name raises AttributeError when metadata has no .get, or
\* when a fetched value has no .replace.
GenerateRaises(metadata) ==
    \/ metadata.kind # "dict"
    \/ \E k \in Keys : ~Get(metadata, k).isStr

Field(metadata, k) == sanitize_filename(Get(metadata, k).v)

\* mutant: the assembled name is sanitized, not the fields
generate_sanitize_whole(metadata, original_ext) ==
    sanitize_filename(Get(metadata, "Application").v \o <<"-">> \o
                      Get(metadata, "MarketScope").v \o <<"-">> \o
                      Get(metadata, "FileName").v \o <<"-">> \o
                      Get(metadata, "Source").v \o <<"-">> \o
                      Get(metadata, "Date").v) \o original_ext

generate_new_name(metadata, original_ext) ==
    Field(metadata, "Application") \o <<"-">> \o
    Field(metadata, "MarketScope") \o <<"-">> \o
    Field(metadata, "FileName") \o <<"-">> \o
    Field(metadata, "Source") \o <<"-">> \o
    Field(metadata, "Date") \o original_ext

\* ------------------------------------------------------------ environment
PdfExt == <<".", "p", "d", "f">>

\* Name of the k-th unsorted report in the input directory.
SrcName(k) == <<"r">> \o IntToStr(k) \o PdfExt

\* Replies of the classifier used in the pipeline runs.
FullRecord(date) ==
    Dict([k \in Keys |->
            CASE k = "Application" -> Str(<<"A", ":">>)
              [] k = "MarketScope" -> Str(<<"W", "W">>)
              [] k = "FileName"    -> Str(<<" ", "T">>)
              [] k = "Source"      -> Str(<<"S">>)
              [] k = "Date"        -> date])

RecBase == FullRecord(Str(<<"1">>))
RecSuffixed == FullRecord(Str(<<"1", "_", "1">>))
RecIntDate == FullRecord(NonStr)
RecEmpty == Dict([k \in {} |-> NonStr])
RecList == Other(TRUE)

\* a record without Application, MarketScope and Source
RecPartial ==
    Dict([k \in {"FileName", "Date"} |->
            IF k = "FileName" THEN Str(<<" ", "T">>) ELSE Str(<<"2">>)])

\* the five keys and one more
RecExtra ==
    Dict([k \in Keys \cup {"Note"} |->
            IF k = "Note" THEN Str(<<"n">>)
            ELSE IF k = "Date" THEN Str(<<"3">>)
            ELSE RecBase.fields[k]])

ClassifierReplies ==
    {NoneValue, RecBase, RecSuffixed, RecIntDate, RecEmpty, RecList}

\* replies that deviate from the five-key object, and None
DeviantReplies == {NoneValue, RecPartial, RecExtra, RecList}

Path(d, n) == [dir |-> d, name |-> n]
NoPath == Path("", <<>>)

BaseName == generate_new_name(RecBase, PdfExt)

\* name with "_k" put before its extension (k = 0: the name itself)
Suffixed(name, k) ==
    IF k = 0 THEN name
    ELSE PathStem(name) \o <<"_">> \o IntToStr(k) \o PathSuffix(name)

\* Names that may already be present in the output directory.
ExistingPool == {Suffixed(BaseName, k) : k \in 0..(MaxExisting - 1)}

\* The input directory holds the first n unsorted reports, n <= NumFiles.
SrcSets == {{SrcName(k) : k \in 1..n} : n \in 0..NumFiles}

\* Disk contents before the run: each file holds its own original path.
DiskOf(paths) == [p \in paths |-> p]

\* With one directory for input and output, already-organised files lie
\* next to the unsorted ones (at most NumFiles files in all).
InitialDisks(outdir) ==
    IF outdir = "in"
    THEN {DiskOf({Path("in", n) : n \in SE[1] \cup SE[2]}) :
             SE \in {X \in SrcSets \X SUBSET ExistingPool :
                        Cardinality(X[1]) + Cardinality(X[2]) <= NumFiles}}
    ELSE {DiskOf({Path("in", n) : n \in S} \cup {Path("out", n) : n \in E}) :
             S \in SrcSets, E \in SUBSET ExistingPool}

\* ------------------------------------------------------------------- state
VARIABLES
    API_KEY,           \* module global: TRUE iff GEMINI_API_KEY is set
    entry,             \* "main" (command line) or "lib" (PDFRenamer used directly)
    dry_run,           \* self.dry_run
    output_directory,  \* self.output_directory: "in" when it defaults to self.directory
    fs,                \* the disk: path -> content
    fs0,               \* the disk before the run
    pc,                \* position of the program
    pdf_files,         \* list built by the scan
    idx,               \* position of the for loop in pdf_files
    img_data,          \* result of get_pdf_cover_image: "png" or "none"
    metadata,          \* result of analyze_cover
    new_filename,      \* result of generate_new_name
    new_path,          \* path under test / resolved destination
    counter,           \* collision counter
    checks,            \* new_path.exists() calls made for the current file
    status,            \* source path -> "pending", "moved", "logged", "failed"
    dest,              \* source path -> destination logged or moved to
    fault,             \* source path -> what the environment did to the file
    sleeps,            \* time.sleep(1) calls made
    exitcode,          \* process exit code, -1 while none
    handles,           \* source paths whose document handle is open
    cover,             \* file content -> what the extractor returns for it
    reply,             \* file content -> what the classifier returns for it
    replies,           \* the replies the classifier can give in this run
    run,               \* "first" or "second" call of process_files
    prev,              \* what the first call left, once a second one started
    fn,                \* function applied to an argument on its own
    raw,               \* argument of sanitize_filename
    arg_md,            \* argument of generate_new_name
    result,            \* string returned by the function applied
    text,              \* response.text given to analyze_cover
    parsed             \* value returned by analyze_cover

vars == <<API_KEY, entry, dry_run, output_directory, fs, fs0, pc, pdf_files,
          idx, img_data, metadata, new_filename, new_path, counter, checks,
          status, dest, fault, sleeps, exitcode, handles, cover, reply,
          replies, run, prev, fn, raw, arg_md, result, text, parsed>>

\* variables of the functions applied on their own, and of a second call
pure == <<fn, raw, arg_md, result, text, parsed>>
rerun == <<run, prev>>
memo == <<cover, reply>>

config == <<API_KEY, entry, dry_run, output_directory, fs0, replies>>
locals == <<img_data, metadata, new_filename, new_path, counter, checks>>

pdf_path == pdf_files[idx]

\* mutant: the existence check looks into the input directory
ExistsInInput(p) == Path("in", p.name) \in DOMAIN fs

Exists(p) == p \in DOMAIN fs

EndsWith(s, t) == Len(s) >= Len(t) /\ SubSeq(s, Len(s) - Len(t) + 1, Len(s)) = t

\* directory.glob("*.pdf"): direct children whose name ends with ".pdf"
Glob(d) == {p \in DOMAIN fs : p.dir = d /\ EndsWith(p.name, PdfExt)}

\* The orders in which the directory enumeration can yield a set of paths.
\* Only the suffix of an unsorted report's name is ever used, so the reports
\* are numbered in the order the enumeration yields them; the already
\* organised files can come anywhere among them.
IsReport(p) == \E k \in 1..NumFiles : p.name = SrcName(k)

Orders(S) ==
    {q \in [1..Cardinality(S) -> S] :
        /\ \A i, j \in 1..Cardinality(S) : q[i] = q[j] => i = j
        /\ \A i, j \in 1..Cardinality(S) :
              (i < j /\ IsReport(q[i]) /\ IsReport(q[j]))
                  => \E k, l \in 1..NumFiles :
                        k < l /\ q[i].name = SrcName(k) /\ q[j].name = SrcName(l)}

\* os.rename: the source disappears, the destination holds its content
Rename(disk, src, dst) ==
    [p \in (DOMAIN disk \ {src}) \cup {dst} |-> IF p = dst THEN disk[src] ELSE disk[p]]

\* nothing recorded of an earlier call
NoPrev ==
    [dry_run |-> FALSE, pdf_files |-> <<>>, fs |-> [p \in {} |-> NoPath],
     status |-> [p \in {} |-> "pending"], dest |-> [p \in {} |-> NoPath],
     pc |-> "none"]

\* no function is being applied on its own
IdlePure ==
    /\ fn = "none"
    /\ raw = <<>>
    /\ arg_md = NoneValue
    /\ result = <<>>
    /\ text = <<>>
    /\ parsed = NoneValue

InitRun(pool) ==
    /\ replies = pool
    /\ API_KEY \in BOOLEAN
    /\ entry \in {"main", "lib"}
    /\ dry_run \in BOOLEAN
    /\ output_directory \in (IF entry = "main" THEN {"out"} ELSE {"in", "out"})
    /\ fs0 \in InitialDisks(output_directory)
    /\ fs = fs0
    /\ pc = IF entry = "main" THEN "main" ELSE "construct"
    /\ pdf_files = <<>>
    /\ idx = 0
    /\ img_data = "none"
    /\ metadata = NoneValue
    /\ new_filename = <<>>
    /\ new_path = NoPath
    /\ counter = 1
    /\ checks = 0
    /\ status = [p \in {} |-> "pending"]
    /\ dest = [p \in {} |-> NoPath]
    /\ fault = [p \in {} |-> "ok"]
    /\ sleeps = 0
    /\ exitcode = -1
    /\ handles = {}
    /\ cover = [c \in {} |-> "none"]
    /\ reply = [c \in {} |-> NoneValue]
    /\ run = "first"
    /\ prev = NoPrev
    /\ IdlePure

Init == InitRun(ClassifierReplies)

ExitCode(c) == IF entry = "main" THEN c ELSE -1

\* ------------------------------------------------------------ entry point
\* __main__: the credential check before the renamer is built
KeyMissingInMain == ~API_KEY

MainStart ==
    /\ pc = "main"
    /\ IF KeyMissingInMain
       THEN pc' = "exited" /\ exitcode' = 1
       ELSE pc' = "construct" /\ UNCHANGED exitcode
    /\ UNCHANGED <<config, fs, pdf_files, idx, locals, status, dest, fault, sleeps>>
    /\ UNCHANGED <<handles, memo, rerun, pure>>

\* mutant: the constructor does not check the credential
KeyCheckSkipped == FALSE

\* PDFRenamer.__init__: the credential check
KeyMissingInInit == ~API_KEY

Construct ==
    /\ pc = "construct"
    /\ IF KeyMissingInInit
       THEN pc' = "raised" /\ exitcode' = ExitCode(1)
       ELSE pc' = "scan" /\ UNCHANGED exitcode
    /\ UNCHANGED <<config, fs, pdf_files, idx, locals, status, dest, fault, sleeps>>
    /\ UNCHANGED <<handles, memo, rerun, pure>>

\* ---------------------------------------------------------- process_files
Scan ==
    /\ pc = "scan"
    /\ \E q \in Orders(Glob("in")) :
          /\ pdf_files' = q
          /\ status' = [p \in Glob("in") |-> "pending"]
          /\ dest' = [p \in Glob("in") |-> NoPath]
          /\ fault' = [p \in Glob("in") |-> "ok"]
          /\ IF q = <<>>
             THEN pc' = "done" /\ idx' = 0 /\ exitcode' = ExitCode(0)
             ELSE pc' = "extract" /\ idx' = 1 /\ UNCHANGED exitcode
    /\ UNCHANGED <<config, fs, locals, sleeps>>
    /\ UNCHANGED <<handles, memo, rerun, pure>>

\* the for loop moves to the next file, or process_files returns
Advance ==
    /\ idx' = idx + 1
    /\ IF idx < Len(pdf_files)
       THEN pc' = "extract" /\ UNCHANGED exitcode
       ELSE pc' = "done" /\ exitcode' = ExitCode(0)

Fail(reason) ==
    /\ status' = [status EXCEPT ![pdf_path] = "failed"]
    /\ fault' = [fault EXCEPT ![pdf_path] = reason]

\* What can happen inside get_pdf_cover_image.
CoverOutcomes == {"open_error", "zero_pages", "render_error", "image"}

\* mutant: doc.close() only after a successful render, no finally clause
CoverClosesOnSuccessOnly(o) ==
    [img |-> IF o = "image" THEN "png" ELSE "none",
     open |-> o \in {"zero_pages", "render_error"},
     raised |-> FALSE]

\* get_pdf_cover_image: the image or none, whether the handle is left open,
\* and whether an exception reaches the caller
get_pdf_cover_image(o) ==
    LET opened == o # "open_error"                       \* doc is bound
        raisedInTry == o \in {"open_error", "render_error"}
        caught == raisedInTry                            \* except Exception
        closed == opened                                 \* finally: 'doc' in locals()
    IN [img |-> IF o = "image" THEN "png" ELSE "none",
        open |-> opened /\ ~closed,
        raised |-> raisedInTry /\ ~caught]

\* a file already read gives the same result again
CoverChoices(content) ==
    IF content \in DOMAIN cover
    THEN {o \in CoverOutcomes : get_pdf_cover_image(o).img = cover[content]}
    ELSE CoverOutcomes

Remember(f, k, v) == [c \in DOMAIN f \cup {k} |-> IF c = k THEN v ELSE f[c]]

\* img_data = self.get_pdf_cover_image(pdf_path); if not img_data: continue
Extract ==
    /\ pc = "extract"
    /\ \E o \in CoverChoices(fs[pdf_path]) :
          LET r == get_pdf_cover_image(o) IN
          /\ img_data' = r.img
          /\ cover' = Remember(cover, fs[pdf_path], r.img)
          /\ handles' = IF r.open THEN handles \cup {pdf_path} ELSE handles
          /\ IF r.raised
             THEN /\ pc' = "crashed"
                  /\ exitcode' = ExitCode(1)
                  /\ UNCHANGED <<idx, status, fault>>
             ELSE IF r.img = "none"
             THEN Fail("extractor_none") /\ Advance
             ELSE pc' = "classify" /\ UNCHANGED <<idx, status, fault, exitcode>>
    /\ UNCHANGED <<config, fs, pdf_files, metadata, new_filename, new_path,
                   counter, checks, dest, sleeps>>
    /\ UNCHANGED <<reply, rerun, pure>>

\* the classifier is deterministic: one reply per file content
ReplyChoices(content) ==
    IF content \in DOMAIN reply THEN {reply[content]} ELSE replies

\* mutant: a reply that is None ends the run
ClassifyNoneAborts ==
    /\ pc = "classify"
    /\ \E m \in ReplyChoices(fs[pdf_path]) :
          /\ metadata' = m
          /\ reply' = Remember(reply, fs[pdf_path], m)
          /\ IF m.kind = "none"
             THEN /\ pc' = "crashed"
                  /\ exitcode' = ExitCode(1)
                  /\ UNCHANGED <<idx, status, fault>>
             ELSE IF ~m.truthy
             THEN Fail("ok") /\ Advance
             ELSE pc' = "name" /\ UNCHANGED <<idx, status, fault, exitcode>>
    /\ UNCHANGED <<config, fs, pdf_files, img_data, new_filename, new_path,
                   counter, checks, dest, sleeps>>
    /\ UNCHANGED <<handles, cover, rerun, pure>>

\* metadata = self.analyze_cover(img_data); if not metadata: continue
Classify ==
    /\ pc = "classify"
    /\ \E m \in ReplyChoices(fs[pdf_path]) :
          /\ metadata' = m
          /\ reply' = Remember(reply, fs[pdf_path], m)
          /\ IF ~m.truthy
             THEN /\ Fail(IF m.kind = "none" THEN "classifier_none" ELSE "ok")
                  /\ Advance
             ELSE pc' = "name" /\ UNCHANGED <<idx, status, fault, exitcode>>
    /\ UNCHANGED <<config, fs, pdf_files, img_data, new_filename, new_path,
                   counter, checks, dest, sleeps>>
    /\ UNCHANGED <<handles, cover, rerun, pure>>

\* new_filename = self.generate_new_name(metadata, pdf_path.suffix)
\* new_path = self.output_directory / new_filename;  counter = 1
Name ==
    /\ pc = "name"
    /\ IF GenerateRaises(metadata)
       THEN /\ pc' = "crashed"
            /\ exitcode' = ExitCode(1)
            /\ UNCHANGED <<new_filename, new_path, counter, checks>>
       ELSE /\ new_filename' = generate_new_name(metadata, PathSuffix(pdf_path.name))
            /\ new_path' = Path(output_directory, new_filename')
            /\ counter' = 1
            /\ checks' = 0
            /\ pc' = "resolve"
            /\ UNCHANGED exitcode
    /\ UNCHANGED <<config, fs, pdf_files, idx, img_data, metadata, status,
                   dest, fault, sleeps>>
    /\ UNCHANGED <<handles, memo, rerun, pure>>

\* mutant: the previous suffix is not stripped
NextCandidateNoStrip(path, c) ==
    Path(output_directory,
         PathStem(path.name) \o <<"_">> \o IntToStr(c) \o PathSuffix(path.name))

\* body of the while loop: the next path to test
NextCandidate(path, c) ==
    LET stem0 == PathStem(path.name)
        stem == IF IsSubstr(<<"_">> \o IntToStr(c - 1), stem0) /\ c > 1
                THEN RSplitFirst(stem0, "_") ELSE stem0
    IN Path(output_directory, stem \o <<"_">> \o IntToStr(c) \o PathSuffix(path.name))

\* mutant: no collision handling, the candidate is used as it is
ResolveNoLoop ==
    /\ pc = "resolve"
    /\ checks' = checks + 1
    /\ pc' = "act"
    /\ UNCHANGED <<config, fs, pdf_files, idx, img_data, metadata, new_filename,
                   new_path, counter, status, dest, fault, sleeps, exitcode>>
    /\ UNCHANGED <<handles, memo, rerun, pure>>

\* one evaluation of "while new_path.exists()" and, if true, one loop body
Resolve ==
    /\ pc = "resolve"
    /\ checks' = checks + 1
    /\ IF Exists(new_path)
       THEN /\ new_path' = NextCandidate(new_path, counter)
            /\ counter' = counter + 1
            /\ pc' = "resolve"
       ELSE /\ pc' = "act"
            /\ UNCHANGED <<new_path, counter>>
    /\ UNCHANGED <<config, fs, pdf_files, idx, img_data, metadata, new_filename,
                   status, dest, fault, sleeps, exitcode>>
    /\ UNCHANGED <<handles, memo, rerun, pure>>

\* mutant: the dry run renames as well
LogDryRunRenames ==
    /\ pc = "act"
    /\ dry_run
    /\ fs' = Rename(fs, pdf_path, new_path)
    /\ status' = [status EXCEPT ![pdf_path] = "logged"]
    /\ dest' = [dest EXCEPT ![pdf_path] = new_path]
    /\ pc' = "sleep"
    /\ UNCHANGED <<config, pdf_files, idx, locals, fault, sleeps, exitcode>>
    /\ UNCHANGED <<handles, memo, rerun, pure>>

\* dry run: the mapping is printed
LogDryRun ==
    /\ pc = "act"
    /\ dry_run
    /\ status' = [status EXCEPT ![pdf_path] = "logged"]
    /\ dest' = [dest EXCEPT ![pdf_path] = new_path]
    /\ pc' = "sleep"
    /\ UNCHANGED <<config, fs, pdf_files, idx, locals, fault, sleeps, exitcode>>
    /\ UNCHANGED <<handles, memo, rerun, pure>>

\* mutant: copy then delete; a failed delete leaves the copy behind
MoveCopyThenDelete ==
    /\ pc = "act"
    /\ ~dry_run
    /\ \/ /\ Exists(pdf_path)
          /\ fs' = Rename(fs, pdf_path, new_path)
          /\ status' = [status EXCEPT ![pdf_path] = "moved"]
          /\ dest' = [dest EXCEPT ![pdf_path] = new_path]
          /\ UNCHANGED fault
       \/ /\ Fail("move_failed")
          /\ fs' = [p \in DOMAIN fs \cup {new_path} |->
                       IF p = new_path THEN fs[pdf_path] ELSE fs[p]]
          /\ UNCHANGED dest
    /\ pc' = "sleep"
    /\ UNCHANGED <<config, pdf_files, idx, locals, sleeps, exitcode>>
    /\ UNCHANGED <<handles, memo, rerun, pure>>

\* execute: pdf_path.rename(new_path), any exception caught
Move ==
    /\ pc = "act"
    /\ ~dry_run
    /\ \/ /\ Exists(pdf_path)
          /\ fs' = Rename(fs, pdf_path, new_path)
          /\ status' = [status EXCEPT ![pdf_path] = "moved"]
          /\ dest' = [dest EXCEPT ![pdf_path] = new_path]
          /\ UNCHANGED fault
       \/ /\ Fail("move_failed")
          /\ UNCHANGED <<fs, dest>>
    /\ pc' = "sleep"
    /\ UNCHANGED <<config, pdf_files, idx, locals, sleeps, exitcode>>
    /\ UNCHANGED <<handles, memo, rerun, pure>>

\* time.sleep(1), then the next iteration
Sleep ==
    /\ pc = "sleep"
    /\ sleeps' = sleeps + 1
    /\ Advance
    /\ UNCHANGED <<config, fs, pdf_files, locals, status, dest, fault>>
    /\ UNCHANGED <<handles, memo, rerun, pure>>

Next ==
    \/ MainStart
    \/ Construct
    \/ Scan
    \/ Extract
    \/ Classify
    \/ Name
    \/ Resolve
    \/ LogDryRun
    \/ Move
    \/ Sleep

Spec == Init /\ [][Next]_vars

\* the same program with a classifier that gives the deviant replies
InitDeviant == InitRun(DeviantReplies)

SpecDeviant == InitDeviant /\ [][Next]_vars

TypeOK ==
    /\ pc \in {"main", "construct", "exited", "raised", "scan", "extract",
               "classify", "name", "resolve", "act", "sleep", "done", "crashed"}
    /\ exitcode \in {-1, 0, 1}
    /\ idx \in 0..(Len(pdf_files) + 1)

\* ------------------------------------------------- a second call
\* replies of the classifier in the runs that are followed by a second call
RerunReplies == {NoneValue, RecBase}

\* The constructor is called from a script with a key; the only file that
\* may already be organised carries the name the classifier's record gives.
InitRerun ==
    /\ InitRun(RerunReplies)
    /\ API_KEY
    /\ entry = "lib"
    /\ \A p \in DOMAIN fs0 : IsReport(p) \/ p.name = BaseName

\* the process is terminated between two files: the loop has finished one
\* file and has not started the next
Interrupt ==
    /\ run = "first"
    /\ pc = "extract"
    /\ idx > 1
    /\ pc' = "killed"
    /\ UNCHANGED <<config, fs, pdf_files, idx, locals, status, dest, fault,
                   sleeps, exitcode, handles, memo, rerun, pure>>

\* process_files is called again, in execute mode, on the disk the first
\* call left; files and classifier are the same
Rerun ==
    /\ run = "first"
    /\ pc \in {"done", "killed"}
    /\ prev' = [dry_run |-> dry_run, pdf_files |-> pdf_files, fs |-> fs,
                status |-> status, dest |-> dest, pc |-> pc]
    /\ run' = "second"
    /\ dry_run' = FALSE
    /\ pc' = "scan"
    /\ idx' = 0
    /\ sleeps' = 0
    /\ exitcode' = -1
    /\ UNCHANGED <<API_KEY, entry, output_directory, fs0, replies, fs, pdf_files,
                   locals, status, dest, fault, handles, memo, pure>>

NextRerun ==
    \/ Construct
    \/ Scan
    \/ Extract
    \/ Classify
    \/ Name
    \/ Resolve
    \/ LogDryRun
    \/ Move
    \/ Sleep
    \/ Interrupt
    \/ Rerun

SpecRerun == InitRerun /\ [][NextRerun]_vars

\* ------------------------------------- filename functions on their own
\* The pipeline variables while a function is applied on its own.
IdlePipeline ==
    /\ API_KEY = TRUE
    /\ entry = "lib"
    /\ dry_run = TRUE
    /\ output_directory = "out"
    /\ fs0 = [p \in {} |-> NoPath]
    /\ fs = fs0
    /\ pc = "idle"
    /\ pdf_files = <<>>
    /\ idx = 0
    /\ img_data = "none"
    /\ metadata = NoneValue
    /\ new_filename = <<>>
    /\ new_path = NoPath
    /\ counter = 1
    /\ checks = 0
    /\ status = [p \in {} |-> "pending"]
    /\ dest = [p \in {} |-> NoPath]
    /\ fault = [p \in {} |-> "ok"]
    /\ sleeps = 0
    /\ exitcode = -1
    /\ handles = {}
    /\ cover = [c \in {} |-> "none"]
    /\ reply = [c \in {} |-> NoneValue]
    /\ replies = {}
    /\ run = "first"
    /\ prev = NoPrev

pipeline == <<API_KEY, entry, dry_run, output_directory, fs, fs0, pc, pdf_files,
              idx, img_data, metadata, new_filename, new_path, checks,
              status, dest, fault, sleeps, exitcode, handles, cover, reply,
              replies, run, prev>>

Alphabet == {"a", " ", "<", ">", ":", "\"", "/", "\\", "|", "?", "*"}

\* all strings over the alphabet up to the length bound
Strings == UNION {[1..n -> Alphabet] : n \in 0..MaxStrLen}

\* strings put around the field values of a record
Paddings ==
    {<<>>, <<" ">>, <<"/">>, <<".", ".">>, <<"_", "1">>, <<"\\", "*", " ">>}

KeyTag(k) ==
    CASE k = "Application" -> "A"
      [] k = "MarketScope" -> "M"
      [] k = "FileName"    -> "F"
      [] k = "Source"      -> "S"
      [] k = "Date"        -> "D"

\* a record with the given keys, each value its tag between two paddings
TaggedRecord(present, padding) ==
    Dict([k \in present |-> Str(padding \o <<KeyTag(k)>> \o padding)])

\* the record of the prompt's example; the title's characters are named by
\* their code points
ExampleRecord ==
    Dict([k \in Keys |->
            CASE k = "Application" -> Str(<<"A", "D", "A", "S">>)
              [] k = "MarketScope" -> Str(<<"W", "W">>)
              [] k = "FileName"    -> Str(<<"U+8ECA", "U+8F09", "U+50B3", "U+611F",
                                            "U+5668", "U+5E02", "U+5834", "U+5206",
                                            "U+6790">>)
              [] k = "Source"      -> Str(<<"M", "S">>)
              [] k = "Date"        -> Str(<<"2", "2", "0", "6", "2", "5">>)])

InitSynth ==
    /\ IdlePipeline
    /\ fn = "none"
    /\ result = <<>>
    /\ text = <<>>
    /\ parsed = NoneValue
    /\ \/ raw \in Strings /\ arg_md = TaggedRecord(Keys, <<>>)
       \/ raw \in Paddings /\ arg_md \in {TaggedRecord(S, raw) : S \in SUBSET Keys}
       \/ raw = <<>> /\ arg_md = ExampleRecord

\* result = self.sanitize_filename(raw)
CallSanitize ==
    /\ fn = "none"
    /\ result' = sanitize_filename(raw)
    /\ fn' = "sanitize"
    /\ UNCHANGED <<pipeline, counter, raw, arg_md, text, parsed>>

\* result = self.generate_new_name(arg_md, ".pdf")
CallGenerate ==
    /\ fn = "none"
    /\ ~GenerateRaises(arg_md)
    /\ result' = generate_new_name(arg_md, PdfExt)
    /\ fn' = "generate"
    /\ UNCHANGED <<pipeline, counter, raw, arg_md, text, parsed>>

\* one body of the collision loop applied to the synthesized name
CallSuffix ==
    /\ fn \in {"generate", "suffix"}
    /\ counter <= MaxExisting
    /\ result' = NextCandidate(Path(output_directory, result), counter).name
    /\ counter' = counter + 1
    /\ fn' = "suffix"
    /\ UNCHANGED <<pipeline, raw, arg_md, text, parsed>>

NextSynth ==
    \/ CallSanitize
    \/ CallGenerate
    \/ CallSuffix

SpecSynth == InitSynth /\ [][NextSynth]_vars

\* --------------------------------------------- analyze_cover on its own
\* Reply texts are made of these characters; "m" stands for the members of
\* a JSON object (the five key-value pairs), written without brace or fence,
\* and "tick" is the backquote character.
Fence == <<"tick", "tick", "tick">>
FenceJson == Fence \o <<"j", "s", "o", "n">>

StartsWith(s, t) == Len(s) >= Len(t) /\ SubSeq(s, 1, Len(t)) = t

Strip(s) == RStrip(LStrip(s))

\* json.loads: the value, or None where it raises
ParseJson(t) ==
    CASE t = <<"{", "m", "}">> -> RecBase
      [] t = <<"{", "}">>      -> RecEmpty
      [] t = <<"[", "m", "]">> -> RecList
      [] OTHER                 -> NoneValue

\* lines 73-79, with the except clause of line 80
analyze_cover(response_text) ==
    LET t1 == Strip(response_text)
        t2 == IF StartsWith(t1, FenceJson) THEN SubSeq(t1, 8, Len(t1)) ELSE t1
        t3 == IF EndsWith(t2, Fence) THEN SubSeq(t2, 1, Len(t2) - 3) ELSE t2
    IN ParseJson(Strip(t3))

\* the parts a reply text is put together from
LeadMarkers ==
    {<<>>, Fence, Fence \o <<"\n">>, FenceJson, FenceJson \o <<"\n">>}
TrailMarkers == {<<>>, Fence, <<"\n">> \o Fence}
Bodies == {<<"{", "m", "}">>, <<"{", "}">>, <<"[", "m", "]">>, <<"{", "m">>, <<"m">>}
Margins == {<<>>, <<" ">>, <<"\n">>}

ReplyText(before, lead, body, trail, after) ==
    before \o lead \o body \o trail \o after

InitParse ==
    /\ IdlePipeline
    /\ fn = "none"
    /\ raw = <<>>
    /\ arg_md = NoneValue
    /\ result = <<>>
    /\ parsed = NoneValue
    /\ text \in {ReplyText(b, l, y, t, a) :
                    b \in Margins, l \in LeadMarkers, y \in Bodies,
                    t \in TrailMarkers, a \in Margins}

\* parsed = self.analyze_cover(...) for a response with this text
CallAnalyze ==
    /\ fn = "none"
    /\ parsed' = analyze_cover(text)
    /\ fn' = "analyze"
    /\ UNCHANGED <<pipeline, counter, raw, arg_md, result, text>>

NextParse == CallAnalyze

SpecParse == InitParse /\ [][NextParse]_vars

\* ------------------------------------------------------------- properties
Terminated == pc \in {"done", "crashed", "exited", "raised"}

Candidate == Path(output_directory, new_filename)

OutFiles(disk) == {p \in DOMAIN disk : p.dir = output_directory}

\* C1: in dry-run mode the disk (paths and contents of both directories)
\* is at every moment what it was before the run.
DryRunLeavesDiskUnchanged == dry_run => fs = fs0

\* C1 witness: a dry run that met a collision and logged its mapping ended.
DryRunLoggedCollision ==
    /\ dry_run
    /\ pc = "done"
    /\ \E f \in DOMAIN status :
          status[f] = "logged" /\ dest[f].name # BaseName /\ dest[f] # NoPath
    /\ fs = fs0

\* C2: in execute mode, when the run has ended, exactly the files for which
\* the extractor returned none, the classifier returned none or the move
\* failed are failed, and every other discovered file is moved to its
\* destination.
SoftFailureIsolation ==
    (~dry_run /\ pc \in {"done", "crashed"}) =>
        \A f \in DOMAIN status :
            /\ (status[f] = "failed") <=> (fault[f] # "ok")
            /\ fault[f] = "ok" =>
                 /\ status[f] = "moved"
                 /\ dest[f] \in DOMAIN fs
                 /\ fs[dest[f]] = fs0[f]

\* C3: no exception leaves process_files, and when it returns every
\* discovered file is moved, logged or failed.
NoPerFileAbort ==
    /\ pc # "crashed"
    /\ pc = "done" => \A f \in DOMAIN status : status[f] # "pending"

\* C4: when the processing of a file starts, one pacing delay has been made
\* for each file processed before it.
PacingAfterEveryFile ==
    /\ pc = "extract" => sleeps = idx - 1
    /\ pc = "done" => sleeps = Len(pdf_files)

\* C5: the path that leaves the collision loop does not exist, and a
\* candidate that does not exist leaves it unchanged.
ResolvedPathIsFree ==
    pc = "act" =>
        /\ new_path \notin DOMAIN fs
        /\ new_path.dir = output_directory
        /\ Candidate \notin DOMAIN fs => new_path = Candidate

\* C5 witness: the loop has just ended after at least one collision.
LoopExitAfterCollision ==
    pc = "act" /\ counter > 1 /\ Candidate \in DOMAIN fs /\ new_path \notin DOMAIN fs

\* C6: if the output directory holds base, base_1 .. base_{N-1} and not
\* base_N, the loop leaves with base_N after at most N+1 existence checks;
\* the checks made never exceed the number of files in the output
\* directory plus one, so the loop ends.
ResolveYieldsBaseN ==
    /\ pc = "resolve" => checks <= Cardinality(OutFiles(fs))
    /\ pc = "act" =>
        /\ checks <= Cardinality(OutFiles(fs)) + 1
        /\ \A N \in 1..Cardinality(OutFiles(fs)) :
              ( /\ \A k \in 0..(N - 1) :
                      Path(output_directory, Suffixed(new_filename, k)) \in DOMAIN fs
                /\ Path(output_directory, Suffixed(new_filename, N)) \notin DOMAIN fs )
              => /\ new_path = Path(output_directory, Suffixed(new_filename, N))
                 /\ checks <= N + 1

\* C6 witness: base, base_1 and base_2 exist and the loop left with base_3.
ResolvedThirdSuffix ==
    /\ pc = "act"
    /\ \A k \in 0..2 : Path(output_directory, Suffixed(new_filename, k)) \in DOMAIN fs
    /\ new_path = Path(output_directory, Suffixed(new_filename, 3))
    /\ checks = 4

\* C7: the path under test is the candidate or the candidate stem with the
\* single suffix _k, k the counter of the last iteration; the result carries
\* the smallest unused k.
SuffixesNeverAccumulate ==
    pc \in {"resolve", "act"} =>
        /\ new_path = Path(output_directory, Suffixed(new_filename, counter - 1))
        /\ \A j \in 0..(counter - 2) :
              Path(output_directory, Suffixed(new_filename, j)) \in DOMAIN fs

\* C7 witness: a candidate whose stem ends with _1 went through two
\* collisions.
SuffixedStemResolvedTwice ==
    /\ pc = "act"
    /\ new_filename = generate_new_name(RecSuffixed, PdfExt)
    /\ counter = 3
    /\ new_path.name = Suffixed(Suffixed(BaseName, 1), 2)

\* C8: the step that fails a file leaves the disk as it is, and a failed
\* file is still at its source path with its content and has no destination.
FailedFileLeftInPlace ==
    /\ [](\A f \in DOMAIN status :
             status[f] = "failed" =>
                 f \in DOMAIN fs /\ fs[f] = fs0[f] /\ dest[f] = NoPath)
    /\ [][(\E f \in DOMAIN status : status[f] # "failed" /\ status'[f] = "failed")
            => fs' = fs]_vars
    /\ [][fs' # fs => status'[pdf_path] = "moved"]_vars

\* C8 witness: in one execute run a file failed at each of the three steps.
FailedAtEveryStep ==
    /\ ~dry_run
    /\ pc = "done"
    /\ \A r \in {"extractor_none", "classifier_none", "move_failed"} :
          \E f \in DOMAIN status : status[f] = "failed" /\ fault[f] = r

\* C9: in execute mode every file that was in the output directory before
\* the run is still there with its content (under its destination name if
\* it was itself a moved source), every moved file's content is at its
\* destination, and no two files were moved to one destination.
MoveNeverOverwrites ==
    ~dry_run =>
        /\ \A p \in OutFiles(fs0) :
              IF p \in DOMAIN status /\ status[p] = "moved"
              THEN dest[p] \in OutFiles(fs) /\ fs[dest[p]] = fs0[p]
              ELSE p \in DOMAIN fs /\ fs[p] = fs0[p]
        /\ \A f \in DOMAIN status :
              status[f] = "moved" =>
                  /\ dest[f] \in DOMAIN fs
                  /\ fs[dest[f]] = fs0[f]
                  /\ \A g \in DOMAIN status :
                        (status[g] = "moved" /\ g # f) => dest[g] # dest[f]

\* C9 witness: two files with the same candidate name were moved into an
\* output directory that already held that name.
TwoMovedSameCandidate ==
    /\ ~dry_run
    /\ Path(output_directory, BaseName) \in DOMAIN fs0
    /\ \E f, g \in DOMAIN status :
          /\ f # g
          /\ status[f] = "moved" /\ status[g] = "moved"
          /\ dest[f].name = Suffixed(BaseName, 1)
          /\ dest[g].name = Suffixed(BaseName, 2)

\* C10: without the API key nothing is scanned, extracted, classified or
\* moved: the constructor raises, and the command line exits with code 1
\* before it builds the renamer.
NoKeyNothingProcessed ==
    ~API_KEY =>
        /\ pc \in {"main", "construct", "exited", "raised"}
        /\ entry = "main" => pc \in {"main", "exited"}
        /\ entry = "lib" => pc \in {"construct", "raised"}
        /\ pc = "exited" => exitcode = 1
        /\ pdf_files = <<>> /\ DOMAIN status = {} /\ fs = fs0
        /\ img_data = "none" /\ metadata = NoneValue /\ new_path = NoPath

\* C10 witness: the command line has exited with code 1 although reports
\* were waiting in the input directory.
ExitedWithoutKey ==
    ~API_KEY /\ pc = "exited" /\ exitcode = 1 /\ Glob("in") # {}

\* ---- what the specification says about the filename functions
ForbiddenChars == {"<", ">", ":", "\"", "/", "\\", "|", "?", "*"}

Blank == {" ", "\t", "\n"}

RECURSIVE Kept(_)
\* s without the forbidden characters
Kept(s) ==
    IF s = <<>> THEN <<>>
    ELSE (IF Head(s) \in ForbiddenChars THEN <<>> ELSE <<Head(s)>>) \o Kept(Tail(s))

\* s from its first to its last non-blank character
Trimmed(s) ==
    LET solid == {i \in 1..Len(s) : s[i] \notin Blank}
    IN IF solid = {} THEN <<>>
       ELSE SubSeq(s, CHOOSE i \in solid : \A j \in solid : i <= j, Max(solid))

Clean(s) == Trimmed(Kept(s))

DocumentedDefault(k) ==
    CASE k = "Application" -> <<"U", "n", "k", "n", "o", "w", "n">>
      [] k = "MarketScope" -> <<"W", "W">>
      [] k = "FileName"    -> <<"U", "n", "t", "i", "t", "l", "e", "d">>
      [] k = "Source"      -> <<"U", "n", "k", "n", "o", "w", "n">>
      [] k = "Date"        -> <<"0", "0", "0", "0", "0", "0">>

FieldOrder == <<"Application", "MarketScope", "FileName", "Source", "Date">>

RECURSIVE SplitOn(_, _)
\* the pieces of s between the occurrences of character c
SplitOn(s, c) ==
    IF Positions(s, c) = {} THEN <<s>>
    ELSE LET p == CHOOSE i \in Positions(s, c) : \A j \in Positions(s, c) : i <= j
         IN <<SubSeq(s, 1, p - 1)>> \o SplitOn(SubSeq(s, p + 1, Len(s)), c)

\* the hyphen-separated segments of a name, its last four characters (the
\* extension) left out
Segments(name) == SplitOn(SubSeq(name, 1, Len(name) - Len(PdfExt)), "-")

\* C11: each of the five segments of the synthesized name is the documented
\* default when its field is missing and the (sanitized) supplied value when
\* the field is present, whatever subset of the fields is missing.
DefaultsPerMissingField ==
    fn = "generate" =>
        /\ Len(Segments(result)) = 5
        /\ \A i \in 1..5 :
              Segments(result)[i] =
                  IF FieldOrder[i] \in DOMAIN arg_md.fields
                  THEN Clean(arg_md.fields[FieldOrder[i]].v)
                  ELSE DocumentedDefault(FieldOrder[i])

\* C11 witness: a record with only FileName and Date, both padded, was named.
NamedPartialRecord ==
    /\ fn = "generate"
    /\ DOMAIN arg_md.fields = {"FileName", "Date"}
    /\ raw = <<" ">>
    /\ Segments(result) =
          <<DocumentedDefault("Application"), <<"W", "W">>, <<"F">>,
            DocumentedDefault("Source"), <<"D">>>>

\* C12: sanitize_filename returns its argument without the nine characters
\* and without leading and trailing whitespace, every other character kept
\* in place.
SanitizeRemovesExactly ==
    fn = "sanitize" =>
        /\ result = Clean(raw)
        /\ \A i \in 1..Len(result) : result[i] \notin ForbiddenChars
        /\ result # <<>> => result[1] \notin Blank /\ result[Len(result)] \notin Blank
        /\ SelectSeq(result, LAMBDA c : c \notin Blank)
             = SelectSeq(raw, LAMBDA c : c \notin Blank \cup ForbiddenChars)

\* C12 witness: a blank that leads only once a forbidden character is gone.
SanitizedBlankBehindSlash ==
    fn = "sanitize" /\ raw = <<"/", " ", "a">> /\ result = <<"a">>

\* C13: the name is the five sanitized fields in the fixed order, joined by
\* single hyphens and followed by the extension; the example record gives
\* the example name.
NameIsFieldsJoinedInOrder ==
    (fn = "generate" /\ DOMAIN arg_md.fields = Keys) =>
        /\ result = Clean(arg_md.fields["Application"].v) \o <<"-">> \o
                    Clean(arg_md.fields["MarketScope"].v) \o <<"-">> \o
                    Clean(arg_md.fields["FileName"].v) \o <<"-">> \o
                    Clean(arg_md.fields["Source"].v) \o <<"-">> \o
                    Clean(arg_md.fields["Date"].v) \o <<".", "p", "d", "f">>
        /\ arg_md = ExampleRecord =>
              result = <<"A", "D", "A", "S", "-", "W", "W", "-",
                         "U+8ECA", "U+8F09", "U+50B3", "U+611F", "U+5668",
                         "U+5E02", "U+5834", "U+5206", "U+6790", "-",
                         "M", "S", "-", "2", "2", "0", "6", "2", "5",
                         ".", "p", "d", "f">>

\* C13 witness: the example record was named.
NamedExampleRecord ==
    fn = "generate" /\ arg_md = ExampleRecord /\ Len(result) = 31

\* C20: no synthesized name and no suffixed variant of it contains a path
\* separator or is a dot name, so the path built from it is a direct child
\* of the output directory.
NameHasNoSeparator ==
    fn \in {"generate", "suffix"} =>
        /\ \A i \in 1..Len(result) : result[i] \notin {"/", "\\"}
        /\ result \notin {<<>>, <<".">>, <<".", ".">>}

\* C20 witness: field values with separators were named and suffixed twice.
SuffixedNameFromSeparators ==
    /\ fn = "suffix"
    /\ counter = 3
    /\ DOMAIN arg_md.fields = Keys
    /\ raw = <<"/">>
    /\ result = <<"A", "-", "M", "-", "F", "-", "S", "-", "D", "_", "2",
                  ".", "p", "d", "f">>

\* C18: a valid JSON object between a leading fence marker (with or without
\* the tag json) and a trailing fence marker is returned parsed, and a reply
\* without fences is parsed as it is.
FencesStrippedBeforeParsing ==
    fn = "analyze" =>
        \A b, a \in Margins, y \in {<<"{", "m", "}">>, <<"{", "}">>} :
            /\ \A l \in LeadMarkers \ {<<>>}, t \in TrailMarkers \ {<<>>} :
                  text = ReplyText(b, l, y, t, a) => parsed = ParseJson(y)
            /\ text = ReplyText(b, <<>>, y, <<>>, a) => parsed = ParseJson(y)

\* C19: no document handle is open in any state of the driver, so none is
\* open when a move is attempted or the next file starts, and no exception
\* of the extractor ends the run (a run only aborts after an image was
\* returned).
DocumentHandleReleased ==
    /\ handles = {}
    /\ pc \in {"classify", "name", "resolve", "act"} => img_data = "png"
    /\ pc = "crashed" => img_data = "png"
    /\ \A f \in DOMAIN status : fault[f] = "extractor_none" => status[f] = "failed"

\* C19 witness: a move is about to be attempted after an earlier file's
\* extraction failed.
MoveAttemptedAfterExtractionFailure ==
    /\ pc = "act"
    /\ ~dry_run
    /\ handles = {}
    /\ \E f \in DOMAIN status : fault[f] = "extractor_none"

HasExactlyFiveKeys(m) == m.kind = "dict" /\ DOMAIN m.fields = Keys

OnlyNoneFailsClassification ==
    \A f \in DOMAIN status :
        (status[f] = "failed" /\ fault[f] \notin {"extractor_none", "move_failed"})
            => reply[fs0[f]].kind = "none"

\* C15: when an execute run follows a complete dry run on the same files in
\* the same order, every file is moved to the destination the dry run
\* reported for it.
DryRunPredictsExecute ==
    (run = "second" /\ pc # "scan" /\ prev.dry_run /\ prev.pc = "done"
        /\ pdf_files = prev.pdf_files) =>
        \A f \in DOMAIN status :
            status[f] = "moved" =>
                prev.status[f] = "logged" /\ dest[f] = prev.dest[f]

\* C17 as stated: in a second execute run every file the first execute run
\* moved is still at the path that run gave it, and no such file is renamed
\* again, whatever the output directory.
RerunKeepsMovedFiles ==
    (run = "second" /\ pc # "scan" /\ ~prev.dry_run) =>
        /\ \A f \in DOMAIN prev.status :
              prev.status[f] = "moved" =>
                  prev.dest[f] \in DOMAIN fs /\ fs[prev.dest[f]] = fs0[f]
        /\ \A g \in DOMAIN status :
              status[g] = "moved" =>
                  ~\E f \in DOMAIN prev.status :
                        prev.status[f] = "moved" /\ prev.dest[f] = g

\* The part of C17 that the code keeps: with an output directory that is not
\* the input directory, a second run leaves the output of the first run as
\* it is and moves only files the first run discovered and did not move.
RerunKeepsMovedFilesSeparateDir ==
    (run = "second" /\ pc # "scan" /\ ~prev.dry_run /\ output_directory # "in") =>
        /\ \A f \in DOMAIN prev.status :
              prev.status[f] = "moved" =>
                  prev.dest[f] \in DOMAIN fs /\ fs[prev.dest[f]] = fs0[f]
        /\ \A p \in DOMAIN prev.fs :
              p.dir = output_directory => p \in DOMAIN fs /\ fs[p] = prev.fs[p]
        /\ \A g \in DOMAIN status :
              status[g] = "moved" =>
                  /\ g \in DOMAIN prev.status /\ prev.status[g] # "moved"
                  /\ ~\E f \in DOMAIN prev.status :
                        prev.status[f] = "moved" /\ prev.dest[f] = g

====
